---- MODULE Spec2Model ----
(***************************************************************************)
(* ResizableSplitView (ui/components, TypeScript) mounted by the host App. *)
(*                                                                         *)
(* Ratios are JavaScript numbers.  They are modelled as exact values on a  *)
(* grid of 1/Units, extended with the IEEE special values +Infinity,       *)
(* -Infinity and NaN that the divisions by the container width produce     *)
(* when that width is 0.  Pixel quantities are integers.  The pointer      *)
(* positions and container widths are chosen so that every division the    *)
(* code performs is exact on the grid.                                     *)
(***************************************************************************)
EXTENDS Integers, Sequences, FiniteSets, TLC

\* ------------------------------------------------------------ bounds ----
Units == 10 * 100                 \* grid: a ratio r is the integer r * Units
PointerStep == 2 * 100            \* pixels between two modelled pointer positions
MaxPointer == 1                   \* pointer X ranges over 0 .. MaxPointer * PointerStep
PointerXs == {i * PointerStep : i \in 0..MaxPointer}
Widths == {0, 500, 1000}          \* container widths (px) the layout can take

\* ------------------------------------------------- JavaScript numbers ----
Fin(n) == [k |-> "fin", v |-> n]
PosInf == [k |-> "inf", v |-> 1]
NegInf == [k |-> "inf", v |-> -1]
NaN == [k |-> "nan", v |-> 0]

IsNaN(a) == a.k = "nan"

\* a < b on JavaScript numbers (false when either is NaN)
FLt(a, b) ==
  IF IsNaN(a) \/ IsNaN(b) THEN FALSE
  ELSE IF a.k = "inf" THEN a.v = -1 /\ ~(b.k = "inf" /\ b.v = -1)
  ELSE IF b.k = "inf" THEN b.v = 1
  ELSE a.v < b.v

FLe(a, b) == IF IsNaN(a) \/ IsNaN(b) THEN FALSE ELSE ~FLt(b, a)

FNeg(a) ==
  IF IsNaN(a) THEN NaN
  ELSE IF a.k = "inf" THEN [k |-> "inf", v |-> 0 - a.v]
  ELSE Fin(0 - a.v)

\* a + b
FAdd(a, b) ==
  IF IsNaN(a) \/ IsNaN(b) THEN NaN
  ELSE IF a.k = "inf" /\ b.k = "inf" THEN (IF a.v = b.v THEN a ELSE NaN)
  ELSE IF a.k = "inf" THEN a
  ELSE IF b.k = "inf" THEN b
  ELSE Fin(a.v + b.v)

\* a - b
FSub(a, b) == FAdd(a, FNeg(b))

\* Math.max(a, b)
MathMax(a, b) == IF IsNaN(a) \/ IsNaN(b) THEN NaN ELSE IF FLt(a, b) THEN b ELSE a

\* Math.min(a, b)
MathMin(a, b) == IF IsNaN(a) \/ IsNaN(b) THEN NaN ELSE IF FLt(b, a) THEN b ELSE a

\* px / w for integer pixel quantities, as a ratio on the grid
PxDiv(px, w) ==
  IF w = 0 THEN (IF px > 0 THEN PosInf ELSE IF px < 0 THEN NegInf ELSE NaN)
  ELSE Fin((px * Units) \div w)

One == Fin(Units)

\* ------------------------------------------------------------- props ----
\* minLeftWidth / minRightWidth are pixels.  maxLeftWidth / maxRightWidth are
\* JavaScript numbers on the grid: a value <= 1 (<= Units) is a fraction, a
\* larger one is a pixel count (px * Units).
DefaultMinLeftWidth == 300
DefaultMinRightWidth == 300
DefaultMaxLeftWidth == 800
DefaultMaxRightWidth == 800
DefaultInitialSplitRatio == 500
HostInitialSplitRatio == 600

DefaultProps ==
  [minLeftWidth |-> DefaultMinLeftWidth, minRightWidth |-> DefaultMinRightWidth,
   maxLeftWidth |-> DefaultMaxLeftWidth, maxRightWidth |-> DefaultMaxRightWidth]

\* a configuration whose left maximum (0.2) is below the left minimum at 1000px
InvertedProps == [DefaultProps EXCEPT !.maxLeftWidth = 2 * 100]

\* a configuration whose left maximum is given in pixels (600px)
PixelMaxProps == [DefaultProps EXCEPT !.maxLeftWidth = 600 * Units]

PropsSet == {DefaultProps, InvertedProps, PixelMaxProps}

Views == {"video", "transcript", "split"}

VARIABLES
  activeView,        \* host: viewState.activeView
  viewSplitRatio,    \* host: viewState.splitRatio
  props,             \* the width props the component is configured with
  containerWidth,    \* width getBoundingClientRect() reports for the container
  mounted,           \* containerRef.current is set
  splitRatio,
  isDragging,
  isLeftCollapsed,
  isRightCollapsed,
  dragStartX,
  dragStartRatio,
  listeners,         \* (mousemove, mouseup) handler pairs registered on document
  bodyStyle,         \* document.body.style cursor / userSelect
  lastOp,            \* history: the handler that ran last
  prevOp,            \* history: the handler that ran before it
  lastX,             \* history: clientX of the last pointer event
  notified,          \* history: the last step invoked onSplitRatioChange
  dragStartWidth     \* history: container width at the BeginDrag of the active session

\* The other components of the application.  Each has a specification of its
\* own further down; the split view's specification leaves their state alone.
VARIABLES
  containerLeft,     \* JSX split view: left edge getBoundingClientRect() reports
  currentTime,       \* App: playerState.currentTime, in 1/TimeUnits seconds
  isPlaying,         \* App: playerState.isPlaying
  intervalRef,       \* App: intervalRef.current (0 is null)
  timers,            \* the interval timers that are set and not cleared
  userOps,           \* history: play / pause / toggle / seek calls so far
  transcriptSegments,\* App: segment id -> text
  undoStack,         \* App: editState.undoStack, segment id -> originalText entries
  availableFiles,    \* loader App: the set of file names the server listed
  filesPending,      \* loader App: the fetch of /transcriptions is in flight
  selectedFile,      \* loader App
  loading,           \* loader App
  error,             \* loader App
  transcriptions,    \* loader App: the file whose segments are held
  inflight,          \* loader App: files of the fetches not yet settled, in issue order
  prevSelected,      \* history: the file selected before selectedFile
  isExporting,       \* ExportPanel
  exportProgress,    \* ExportPanel
  exportResults,     \* ExportPanel
  exportType,        \* ExportPanel
  exports,           \* ExportPanel: the handleExport calls that have not returned
  onExportCalls      \* history: onExport invocations of the latest export

splitVars == <<activeView, viewSplitRatio, props, containerWidth, mounted, splitRatio,
               isDragging, isLeftCollapsed, isRightCollapsed, dragStartX, dragStartRatio,
               listeners, bodyStyle, lastOp, prevOp, lastX, notified, dragStartWidth>>
playerVars == <<currentTime, isPlaying, intervalRef, timers, userOps>>
editVars == <<transcriptSegments, undoStack>>
loaderVars == <<availableFiles, filesPending, selectedFile, loading, error, transcriptions, inflight,
                prevSelected>>
exportVars == <<isExporting, exportProgress, exportResults, exportType, exports,
                onExportCalls>>

vars == <<splitVars, containerLeft, playerVars, editVars, loaderVars, exportVars>>

hostVars == <<activeView, props>>
collapseVars == <<isLeftCollapsed, isRightCollapsed>>
dragRefs == <<dragStartX, dragStartRatio, dragStartWidth>>

DefaultStyle == [cursor |-> "", userSelect |-> ""]
ResizingStyle == [cursor |-> "col-resize", userSelect |-> "none"]

\* ---------------------------------------------------- clamp arithmetic ----
minLeftRatio(p, w) == PxDiv(p.minLeftWidth, w)
minRightRatio(p, w) == PxDiv(p.minRightWidth, w)
maxLeftRatio(p, w) ==
  IF p.maxLeftWidth <= Units THEN Fin(p.maxLeftWidth) ELSE PxDiv(p.maxLeftWidth \div Units, w)
maxRightRatio(p, w) ==
  IF p.maxRightWidth <= Units THEN Fin(p.maxRightWidth) ELSE PxDiv(p.maxRightWidth \div Units, w)

\* mutant: the right pane's minimum width is not enforced
ClampMinLeftOnly(p, w, r) == MathMax(minLeftRatio(p, w), r)

\* line 518: the minimum-width clamp
ClampMin(p, w, r) == MathMax(minLeftRatio(p, w), MathMin(FSub(One, minRightRatio(p, w)), r))

\* mutant: the maximum-width clamp is missing
ClampMaxNone(p, w, r) == r

\* line 519: the maximum-width clamp
ClampMax(p, w, r) == MathMax(FSub(One, maxRightRatio(p, w)), MathMin(maxLeftRatio(p, w), r))

\* mutant: the target is computed from the absolute pointer position
RawRatioAbsolute(startRatio, startX, x, w) == FAdd(startRatio, PxDiv(x, w))

\* lines 507-510: the unclamped target of a pointer move
RawRatio(startRatio, startX, x, w) == FAdd(startRatio, PxDiv(x - startX, w))

\* mutant: the maximum-width clamp is applied first, the minimum-width clamp last
NewRatioMinLast(p, w, startRatio, startX, x) ==
  ClampMin(p, w, ClampMax(p, w, RawRatio(startRatio, startX, x, w)))

\* lines 505-519: the ratio a processed pointer move stores
NewRatio(p, w, startRatio, startX, x) ==
  ClampMax(p, w, ClampMin(p, w, RawRatio(startRatio, startX, x, w)))

\* mutant: the effect registers its listeners but returns no cleanup
ListenerEffectNoCleanup(n, wasDragging, nowDragging) ==
  n + (IF nowDragging THEN 1 ELSE 0)

\* lines 531-540: the cleanup of the previous effect run, then the effect itself
ListenerEffect(n, wasDragging, nowDragging) ==
  (n - (IF wasDragging THEN 1 ELSE 0)) + (IF nowDragging THEN 1 ELSE 0)

\* lines 567-568: the rendered widths, in percent * Units / 100
leftWidth == IF isLeftCollapsed THEN Fin(2 * 10) ELSE splitRatio
rightWidth == IF isRightCollapsed THEN Fin(2 * 10) ELSE FSub(One, splitRatio)

\* --------------------------------------------------------------- Init ----
\* App.jsx lines 18-21: playerState; line 238: intervalRef
TimeUnits == 100                  \* currentTime t is the integer t * TimeUnits
Duration == 180 * TimeUnits
PlayerInit ==
  /\ currentTime = 0
  /\ isPlaying = FALSE
  /\ intervalRef = 0
  /\ timers = {}
  /\ userOps = 0

\* App.jsx lines 37-42 and 104-130: editState.undoStack and transcriptSegments
SegIds == {"1", "2"}
InitialSegments == [id \in SegIds |-> IF id = "1" THEN "Welcome" ELSE "Fascinating"]
EditIds == SegIds \cup {"4"}      \* '4' is a segment of transcriptionData only
EditInit ==
  /\ transcriptSegments = InitialSegments
  /\ undoStack = [id \in EditIds |-> <<>>]

\* ui/App.tsx lines 12-28: the state after the first render and its two effects
InitialFile == "transcription.json"
LoaderInit ==
  /\ availableFiles = {}
  /\ filesPending = TRUE
  /\ selectedFile = InitialFile
  /\ loading = TRUE
  /\ error = ""
  /\ transcriptions = "none"
  /\ inflight = <<InitialFile>>
  /\ prevSelected = "none"

\* ExportPanel.jsx lines 26-29
Null == [null |-> TRUE]
ExportInit ==
  /\ isExporting = FALSE
  /\ exportProgress = 0
  /\ exportResults = Null
  /\ exportType = "audio"
  /\ exports = <<>>
  /\ onExportCalls = 0

Init ==
  /\ activeView = "video"
  /\ viewSplitRatio = Fin(HostInitialSplitRatio)
  /\ props \in PropsSet
  /\ containerWidth \in Widths
  /\ mounted = FALSE
  /\ splitRatio = Fin(DefaultInitialSplitRatio)
  /\ isDragging = FALSE
  /\ isLeftCollapsed = FALSE
  /\ isRightCollapsed = FALSE
  /\ dragStartX = 0
  /\ dragStartRatio = Fin(0)
  /\ listeners = 0
  /\ bodyStyle = DefaultStyle
  /\ lastOp = "init"
  /\ prevOp = "init"
  /\ lastX = 0
  /\ notified = FALSE
  /\ dragStartWidth = 0
  /\ containerLeft = 0
  /\ PlayerInit
  /\ EditInit
  /\ LoaderInit
  /\ ExportInit

Hist(op, x, cb) ==
  /\ lastOp' = op
  /\ prevOp' = lastOp
  /\ lastX' = x
  /\ notified' = cb
  /\ UNCHANGED <<containerLeft, playerVars, editVars, loaderVars, exportVars>>

\* ------------------------------------------------------------ actions ----
\* mutant: a re-render copies the initialSplitRatio prop into the state again
handleViewChangeSyncing(view) ==
  /\ activeView' = view
  /\ mounted' = (view = "split")
  /\ IF view = "split" /\ activeView = "split"
       THEN /\ splitRatio' = viewSplitRatio
            /\ UNCHANGED <<isDragging, isLeftCollapsed, isRightCollapsed,
                           dragStartX, dragStartRatio, listeners, dragStartWidth>>
       ELSE /\ splitRatio' = IF view = "split" THEN viewSplitRatio
                                               ELSE Fin(DefaultInitialSplitRatio)
            /\ isDragging' = FALSE
            /\ isLeftCollapsed' = FALSE
            /\ isRightCollapsed' = FALSE
            /\ dragStartX' = 0
            /\ dragStartRatio' = Fin(0)
            /\ listeners' = ListenerEffect(listeners, isDragging, FALSE)
            /\ dragStartWidth' = 0
  /\ Hist("handleViewChange", 0, FALSE)
  /\ UNCHANGED <<viewSplitRatio, props, containerWidth, bodyStyle>>

\* host: handleViewChange(view); entering 'split' mounts a fresh component with
\* initialSplitRatio = viewState.splitRatio, leaving it unmounts the component
\* (the effect cleanup removes the listeners, the state and refs are dropped)
handleViewChange(view) ==
  /\ activeView' = view
  /\ mounted' = (view = "split")
  /\ IF view = "split" /\ activeView = "split"
       THEN UNCHANGED <<splitRatio, isDragging, isLeftCollapsed, isRightCollapsed,
                        dragStartX, dragStartRatio, listeners, dragStartWidth>>
       ELSE /\ splitRatio' = IF view = "split" THEN viewSplitRatio
                                               ELSE Fin(DefaultInitialSplitRatio)
            /\ isDragging' = FALSE
            /\ isLeftCollapsed' = FALSE
            /\ isRightCollapsed' = FALSE
            /\ dragStartX' = 0
            /\ dragStartRatio' = Fin(0)
            /\ listeners' = ListenerEffect(listeners, isDragging, FALSE)
            /\ dragStartWidth' = 0
  /\ Hist("handleViewChange", 0, FALSE)
  /\ UNCHANGED <<viewSplitRatio, props, containerWidth, bodyStyle>>

\* the layout changes the container's width (window resize)
Resize(w) ==
  /\ w # containerWidth
  /\ containerWidth' = w
  /\ Hist("resize", 0, FALSE)
  /\ UNCHANGED <<hostVars, viewSplitRatio, mounted, splitRatio, isDragging, collapseVars,
                 dragRefs, listeners, bodyStyle>>

\* mutant: the handler captures the ratio of the first render (stale closure)
handleMouseDownStale(x) ==
  /\ mounted
  /\ isDragging' = TRUE
  /\ dragStartX' = x
  /\ dragStartRatio' = viewSplitRatio
  /\ dragStartWidth' = containerWidth
  /\ bodyStyle' = ResizingStyle
  /\ listeners' = ListenerEffect(listeners, isDragging, TRUE)
  /\ Hist("handleMouseDown", x, FALSE)
  /\ UNCHANGED <<hostVars, viewSplitRatio, containerWidth, mounted, splitRatio, collapseVars>>

\* mousedown on the divider
handleMouseDown(x) ==
  /\ mounted
  /\ isDragging' = TRUE
  /\ dragStartX' = x
  /\ dragStartRatio' = splitRatio
  /\ dragStartWidth' = containerWidth
  /\ bodyStyle' = ResizingStyle
  /\ listeners' = ListenerEffect(listeners, isDragging, TRUE)
  /\ Hist("handleMouseDown", x, FALSE)
  /\ UNCHANGED <<hostVars, viewSplitRatio, containerWidth, mounted, splitRatio, collapseVars>>

\* mutant: the container width is measured once, at BeginDrag
handleMouseMoveStaleWidth(x) ==
  /\ IF listeners > 0 /\ isDragging /\ mounted
       THEN /\ splitRatio' = NewRatio(props, dragStartWidth, dragStartRatio, dragStartX, x)
            /\ viewSplitRatio' = splitRatio'
            /\ Hist("handleMouseMove", x, TRUE)
       ELSE /\ UNCHANGED <<splitRatio, viewSplitRatio>>
            /\ Hist("mousemove", x, FALSE)
  /\ listeners' = ListenerEffect(listeners, isDragging, isDragging)
  /\ UNCHANGED <<hostVars, containerWidth, mounted, isDragging, collapseVars, dragRefs, bodyStyle>>

\* mutant: the listener stays registered and the handler has no isDragging guard
handleMouseMoveUnguarded(x) ==
  /\ IF mounted
       THEN /\ splitRatio' = NewRatio(props, containerWidth, dragStartRatio, dragStartX, x)
            /\ viewSplitRatio' = splitRatio'
            /\ Hist("handleMouseMove", x, TRUE)
       ELSE /\ UNCHANGED <<splitRatio, viewSplitRatio>>
            /\ Hist("mousemove", x, FALSE)
  /\ listeners' = ListenerEffect(listeners, isDragging, isDragging)
  /\ UNCHANGED <<hostVars, containerWidth, mounted, isDragging, collapseVars, dragRefs, bodyStyle>>

\* a mousemove on the document; it reaches handleMouseMove only through a
\* registered listener, and the handler returns early unless a drag is active
\* and the container is mounted
handleMouseMove(x) ==
  /\ IF listeners > 0 /\ isDragging /\ mounted
       THEN /\ splitRatio' = NewRatio(props, containerWidth, dragStartRatio, dragStartX, x)
            /\ viewSplitRatio' = splitRatio'
            /\ Hist("handleMouseMove", x, TRUE)
       ELSE /\ UNCHANGED <<splitRatio, viewSplitRatio>>
            /\ Hist("mousemove", x, FALSE)
  /\ listeners' = ListenerEffect(listeners, isDragging, isDragging)
  /\ UNCHANGED <<hostVars, containerWidth, mounted, isDragging, collapseVars, dragRefs, bodyStyle>>

\* mutant: the session ends but the body styles are left in drag mode
handleMouseUpKeepsCursor ==
  /\ listeners > 0
  /\ isDragging' = FALSE
  /\ listeners' = ListenerEffect(listeners, isDragging, FALSE)
  /\ Hist("handleMouseUp", lastX, FALSE)
  /\ dragStartWidth' = 0
  /\ UNCHANGED <<hostVars, viewSplitRatio, containerWidth, mounted, splitRatio, collapseVars,
                 dragStartX, dragStartRatio, bodyStyle>>

\* a mouseup on the document while the listeners are registered
handleMouseUp ==
  /\ listeners > 0
  /\ isDragging' = FALSE
  /\ bodyStyle' = DefaultStyle
  /\ listeners' = ListenerEffect(listeners, isDragging, FALSE)
  /\ Hist("handleMouseUp", lastX, FALSE)
  /\ dragStartWidth' = 0
  /\ UNCHANGED <<hostVars, viewSplitRatio, containerWidth, mounted, splitRatio, collapseVars,
                 dragStartX, dragStartRatio>>

\* mutant: the reset updates the local state only
resetSplitSilent ==
  /\ mounted
  /\ splitRatio' = Fin(5 * 100)
  /\ listeners' = ListenerEffect(listeners, isDragging, isDragging)
  /\ Hist("resetSplit", 0, FALSE)
  /\ UNCHANGED <<hostVars, viewSplitRatio, containerWidth, mounted, isDragging,
                 collapseVars, dragRefs, bodyStyle>>

resetSplit ==
  /\ mounted
  /\ splitRatio' = Fin(5 * 100)
  /\ viewSplitRatio' = Fin(5 * 100)
  /\ listeners' = ListenerEffect(listeners, isDragging, isDragging)
  /\ Hist("resetSplit", 0, TRUE)
  /\ UNCHANGED <<hostVars, containerWidth, mounted, isDragging, collapseVars, dragRefs, bodyStyle>>

\* mutant: expanding restores the ratio the host last stored
toggleLeftPanelRestoring ==
  /\ mounted
  /\ IF isLeftCollapsed
       THEN splitRatio' = viewSplitRatio /\ isLeftCollapsed' = FALSE
       ELSE splitRatio' = Fin(2 * 10) /\ isLeftCollapsed' = TRUE
  /\ listeners' = ListenerEffect(listeners, isDragging, isDragging)
  /\ Hist("toggleLeftPanel", 0, FALSE)
  /\ UNCHANGED <<hostVars, viewSplitRatio, containerWidth, mounted, isDragging,
                 isRightCollapsed, dragRefs, bodyStyle>>

\* mutant: collapsing the left pane expands the right one (one side at a time)
toggleLeftPanelExclusive ==
  /\ mounted
  /\ IF isLeftCollapsed
       THEN splitRatio' = Fin(5 * 100) /\ isLeftCollapsed' = FALSE
                                       /\ isRightCollapsed' = isRightCollapsed
       ELSE splitRatio' = Fin(2 * 10) /\ isLeftCollapsed' = TRUE
                                      /\ isRightCollapsed' = FALSE
  /\ listeners' = ListenerEffect(listeners, isDragging, isDragging)
  /\ Hist("toggleLeftPanel", 0, FALSE)
  /\ UNCHANGED <<hostVars, viewSplitRatio, containerWidth, mounted, isDragging,
                 dragRefs, bodyStyle>>

toggleLeftPanel ==
  /\ mounted
  /\ IF isLeftCollapsed
       THEN splitRatio' = Fin(5 * 100) /\ isLeftCollapsed' = FALSE
       ELSE splitRatio' = Fin(2 * 10) /\ isLeftCollapsed' = TRUE
  /\ listeners' = ListenerEffect(listeners, isDragging, isDragging)
  /\ Hist("toggleLeftPanel", 0, FALSE)
  /\ UNCHANGED <<hostVars, viewSplitRatio, containerWidth, mounted, isDragging,
                 isRightCollapsed, dragRefs, bodyStyle>>

\* mutant: collapsing the right pane moves the ratio but does not set the flag
toggleRightPanelNoFlag ==
  /\ mounted
  /\ IF isRightCollapsed
       THEN splitRatio' = Fin(5 * 100) /\ isRightCollapsed' = FALSE
       ELSE splitRatio' = Fin(98 * 10) /\ isRightCollapsed' = FALSE
  /\ listeners' = ListenerEffect(listeners, isDragging, isDragging)
  /\ Hist("toggleRightPanel", 0, FALSE)
  /\ UNCHANGED <<hostVars, viewSplitRatio, containerWidth, mounted, isDragging,
                 isLeftCollapsed, dragRefs, bodyStyle>>

\* mutant: collapsing the right pane gives the left pane the whole container
toggleRightPanelFull ==
  /\ mounted
  /\ IF isRightCollapsed
       THEN splitRatio' = Fin(5 * 100) /\ isRightCollapsed' = FALSE
       ELSE splitRatio' = One /\ isRightCollapsed' = TRUE
  /\ listeners' = ListenerEffect(listeners, isDragging, isDragging)
  /\ Hist("toggleRightPanel", 0, FALSE)
  /\ UNCHANGED <<hostVars, viewSplitRatio, containerWidth, mounted, isDragging,
                 isLeftCollapsed, dragRefs, bodyStyle>>

toggleRightPanel ==
  /\ mounted
  /\ IF isRightCollapsed
       THEN splitRatio' = Fin(5 * 100) /\ isRightCollapsed' = FALSE
       ELSE splitRatio' = Fin(98 * 10) /\ isRightCollapsed' = TRUE
  /\ listeners' = ListenerEffect(listeners, isDragging, isDragging)
  /\ Hist("toggleRightPanel", 0, FALSE)
  /\ UNCHANGED <<hostVars, viewSplitRatio, containerWidth, mounted, isDragging,
                 isLeftCollapsed, dragRefs, bodyStyle>>

Next ==
  \/ \E view \in Views : handleViewChange(view)
  \/ \E w \in Widths : Resize(w)
  \/ \E x \in PointerXs : handleMouseDown(x)
  \/ \E x \in PointerXs : handleMouseMove(x)
  \/ handleMouseUp
  \/ resetSplit
  \/ toggleLeftPanel
  \/ toggleRightPanel

Spec == Init /\ [][Next]_vars

\* ======================================================== properties ====
\* the interval the drag bounds describe at container width w
LoBound(p, w) == MathMax(minLeftRatio(p, w), FSub(One, maxRightRatio(p, w)))
HiBound(p, w) == MathMin(FSub(One, minRightRatio(p, w)), maxLeftRatio(p, w))
InBounds(r, p, w) == FLe(LoBound(p, w), r) /\ FLe(r, HiBound(p, w))
Consistent(p, w) == FLe(LoBound(p, w), HiBound(p, w))

\* what a drag update guarantees of the ratio r it stores from start ratio s:
\* inside the interval when that is non-empty, or NaN inherited from s
DragResultOk(r, s, p, w) ==
  Consistent(p, w) => (InBounds(r, p, w) \/ (IsNaN(r) /\ IsNaN(s)))

\* the unclamped target of the pointer move that ran last
LastRaw == RawRatio(dragStartRatio, dragStartX, lastX, containerWidth)

Half == Fin(5 * 100)
LeftSentinel == Fin(2 * 10)
RightSentinel == Fin(98 * 10)
ToggleOps == {"toggleLeftPanel", "toggleRightPanel"}
ChangeOps == {"handleMouseMove", "resetSplit"} \cup ToggleOps

\* ---- C1 ----
\* C1 as stated, for a container of positive width: for every configuration the
\* ratio a processed drag update leaves lies within
\* [max(minLeftFrac, 1-maxRightFrac), min(1-minRightFrac, maxLeftFrac)].
C1_AsStated ==
  (lastOp = "handleMouseMove" /\ containerWidth > 0)
    => InBounds(splitRatio, props, containerWidth)

\* C1 amended: whenever that interval is non-empty at the container width of
\* the pointer move, the ratio a processed drag update leaves lies within it,
\* or is NaN because the ratio captured at BeginDrag already was NaN.
C1_DragWithinConsistentBounds ==
  (lastOp = "handleMouseMove")
    => DragResultOk(splitRatio, dragStartRatio, props, containerWidth)

\* a drag whose target lies above a non-empty interval and was clamped to its top
C1_Witness ==
  /\ lastOp = "handleMouseMove"
  /\ Consistent(props, containerWidth)
  /\ FLt(HiBound(props, containerWidth), LastRaw)
  /\ splitRatio = HiBound(props, containerWidth)

\* ---- C2 ----
\* C2 as stated, for a configuration whose bounds are consistent: in every
\* reachable state of the mounted component the ratio lies inside the bounds
\* derived from the minimum and maximum widths.
C2_AsStated ==
  (mounted /\ Consistent(props, containerWidth))
    => InBounds(splitRatio, props, containerWidth)

\* C2 amended: only drag updates clamp.  Every change of the ratio of a mounted
\* component is a drag update (inside the bounds whenever they are consistent,
\* or NaN inherited from the start ratio), a reset to 0.5, or a collapse /
\* expand to 0.02, 0.98 or 0.5, unclamped.
C2_OnlyDragClamps ==
  [][(mounted /\ mounted' /\ splitRatio' # splitRatio) =>
       \/ /\ lastOp' = "handleMouseMove"
          /\ DragResultOk(splitRatio', dragStartRatio', props', containerWidth')
       \/ lastOp' = "resetSplit" /\ splitRatio' = Half
       \/ lastOp' = "toggleLeftPanel" /\ splitRatio' \in {LeftSentinel, Half}
       \/ lastOp' = "toggleRightPanel" /\ splitRatio' \in {RightSentinel, Half}]_vars

\* a collapse has put the ratio outside a non-empty bounds interval
C2_Witness ==
  /\ lastOp = "toggleRightPanel"
  /\ splitRatio = RightSentinel
  /\ Consistent(props, containerWidth)
  /\ ~InBounds(splitRatio, props, containerWidth)

\* ---- C3 ----
\* C3: every change of the ratio (drag update, reset, collapse / expand) is
\* reported through onSplitRatioChange, so the host holds the current ratio.
C3_EveryChangeReported ==
  (mounted /\ lastOp \in ChangeOps) => (notified /\ viewSplitRatio = splitRatio)

\* ---- C4 ----
\* C4: a pointer move that arrives during a drag while the container cannot be
\* measured (width 0 or not mounted) changes nothing and notifies nobody.
C4_UnmeasurableMoveIgnored ==
  [][(lastOp' \in {"handleMouseMove", "mousemove"} /\ isDragging
        /\ (containerWidth = 0 \/ ~mounted))
       => (splitRatio' = splitRatio /\ ~notified' /\ viewSplitRatio' = viewSplitRatio)]_vars

\* ---- C5 ----
\* C5 as stated, for a container of positive width: a drag session whose last
\* pointer X equals the X at BeginDrag ends with the ratio it began with,
\* whatever that ratio was.
C5_AsStated ==
  (/\ lastOp = "handleMouseUp" /\ prevOp = "handleMouseMove" /\ lastX = dragStartX
   /\ containerWidth > 0)
    => splitRatio = dragStartRatio

\* C5 amended: such a session ends with the ratio it began with whenever that
\* ratio lies within the bounds in force at the last pointer move.
C5_ZeroNetMoveWithinBounds ==
  (/\ lastOp = "handleMouseUp" /\ prevOp = "handleMouseMove" /\ lastX = dragStartX
   /\ InBounds(dragStartRatio, props, containerWidth))
    => splitRatio = dragStartRatio

\* a session that began within the bounds and ended where it began
C5_Witness ==
  /\ lastOp = "handleMouseUp" /\ prevOp = "handleMouseMove" /\ lastX = dragStartX
  /\ lastX > 0
  /\ InBounds(dragStartRatio, props, containerWidth)
  /\ splitRatio = dragStartRatio

\* ---- C6 ----
\* C6: ResetSplit leaves the ratio at 0.5 and hands 0.5 to the parent, whatever
\* the state before it.
C6_ResetYieldsHalf ==
  (lastOp = "resetSplit") => (splitRatio = Half /\ notified /\ viewSplitRatio = Half)

\* a reset in the middle of a drag, with a side collapsed
C6_Witness ==
  /\ lastOp = "resetSplit"
  /\ isDragging
  /\ isLeftCollapsed
  /\ splitRatio = Half
  /\ viewSplitRatio = Half

\* ---- C7 ----
\* C7: collapsing a side and toggling it again at once leaves the ratio at 0.5
\* and that side expanded, whatever the ratio was before the collapse.
C7_ToggleRoundTrip ==
  [][/\ (lastOp = "toggleLeftPanel" /\ isLeftCollapsed /\ lastOp' = "toggleLeftPanel")
          => (splitRatio' = Half /\ ~isLeftCollapsed')
     /\ (lastOp = "toggleRightPanel" /\ isRightCollapsed /\ lastOp' = "toggleRightPanel")
          => (splitRatio' = Half /\ ~isRightCollapsed')]_vars

\* two left toggles in a row from an expanded pane whose ratio was 0.6
C7_Witness ==
  /\ lastOp = "toggleLeftPanel" /\ prevOp = "toggleLeftPanel"
  /\ ~isLeftCollapsed
  /\ splitRatio = Half
  /\ viewSplitRatio = Fin(HostInitialSplitRatio)

\* ---- C8 ----
\* C8: in every reachable state of the mounted component both rendered widths
\* are strictly greater than 0.
C8_BothPanesNonZero ==
  mounted => (FLt(Fin(0), leftWidth) /\ FLt(Fin(0), rightWidth))

\* ---- C9 ----
\* C9: at most one pair of global pointer listeners is registered, it is
\* registered exactly while a drag session is active, and a pointer move is
\* processed only inside a session.
C9_ListenersExactlyWhileDragging ==
  /\ listeners \in {0, 1}
  /\ (listeners = 1) <=> (mounted /\ isDragging)
  /\ (lastOp = "handleMouseMove") => (isDragging /\ listeners = 1)

\* a second pointer move of one session, still with a single listener pair
C9_Witness ==
  /\ lastOp = "handleMouseMove" /\ prevOp = "handleMouseMove"
  /\ listeners = 1
  /\ isDragging

\* ---- C10 ----
\* C10: at container width 1000 with minLeftWidth = minRightWidth = 300 and
\* maximum bounds that do not cut into [0.3, 0.7], every drag result lies in
\* [0.3, 0.7]; a target of 0.9 gives 0.7 and a target below 0.3 gives 0.3.
C10_Example ==
  (/\ lastOp = "handleMouseMove"
   /\ containerWidth = 1000
   /\ props.minLeftWidth = 300 /\ props.minRightWidth = 300
   /\ FLe(Fin(7 * 100), maxLeftRatio(props, containerWidth))
   /\ FLe(FSub(One, maxRightRatio(props, containerWidth)), Fin(3 * 100)))
    => /\ FLe(Fin(3 * 100), splitRatio) /\ FLe(splitRatio, Fin(7 * 100))
       /\ (LastRaw = Fin(9 * 100)) => (splitRatio = Fin(7 * 100))
       /\ FLt(LastRaw, Fin(3 * 100)) => (splitRatio = Fin(3 * 100))

\* ---- C11 ----
\* restriction of x to [lo, hi], the lower end winning when lo > hi
Restrict(lo, hi, x) ==
  IF FLt(hi, x) THEN (IF FLt(hi, lo) THEN lo ELSE hi)
  ELSE IF FLt(x, lo) THEN lo
  ELSE x

\* C11: a processed UpdateDrag(pointerX) stores
\* clamp2(clamp1(startRatio + (pointerX - startX) / containerWidth)), clamp1
\* restricting to [minLeftFrac, 1-minRightFrac] and clamp2 to
\* [1-maxRightFrac, maxLeftFrac], with startRatio / startX captured at BeginDrag.
C11_UpdateDragFormula ==
  (lastOp = "handleMouseMove") =>
    splitRatio =
      Restrict(FSub(One, maxRightRatio(props, containerWidth)),
               maxLeftRatio(props, containerWidth),
               Restrict(minLeftRatio(props, containerWidth),
                        FSub(One, minRightRatio(props, containerWidth)),
                        FAdd(dragStartRatio, PxDiv(lastX - dragStartX, containerWidth))))

\* the example: start ratio 0.6, +200px in a 1000px container, raw target 0.8
C11_Witness ==
  /\ lastOp = "handleMouseMove"
  /\ containerWidth = 1000
  /\ dragStartRatio = Fin(6 * 100)
  /\ lastX - dragStartX = 200
  /\ LastRaw = Fin(8 * 100)
  /\ props = DefaultProps
  /\ splitRatio = Fin(7 * 100)

\* ---- C12 ----
\* C12 as stated, for containers of positive width: every UpdateDrag of a
\* session divides by the container width measured at BeginDrag, also after a
\* resize in the middle of the drag.
C12_AsStated ==
  (lastOp = "handleMouseMove" /\ dragStartWidth > 0 /\ containerWidth > 0)
    => splitRatio = NewRatio(props, dragStartWidth, dragStartRatio, dragStartX, lastX)

\* C12 amended: the container width is measured at every pointer move; each
\* UpdateDrag divides by the width the container has at that move, so a resize
\* in the middle of a drag changes the denominator of the later moves.
C12_WidthMeasuredPerMove ==
  [][(lastOp' = "handleMouseMove") =>
       splitRatio' = NewRatio(props, containerWidth, dragStartRatio, dragStartX, lastX')]_vars

\* a move after a resize in mid-drag whose result differs from the one the
\* width at BeginDrag would give
C12_Witness ==
  /\ lastOp = "handleMouseMove"
  /\ prevOp = "resize"
  /\ dragStartWidth = 1000
  /\ containerWidth = 500
  /\ splitRatio = NewRatio(props, containerWidth, dragStartRatio, dragStartX, lastX)
  /\ splitRatio # NewRatio(props, dragStartWidth, dragStartRatio, dragStartX, lastX)

\* ---- C13 ----
\* the left pane's minimum-derived bound exceeds its maximum-derived bound
LeftInverted(p, w) == FLt(maxLeftRatio(p, w), minLeftRatio(p, w))

C14_CollapsePinsRatio ==
  mounted => /\ isLeftCollapsed => splitRatio = LeftSentinel
             /\ isRightCollapsed => splitRatio = RightSentinel

\* ---- C15 ----
\* C15: a toggle of an expanded side stores the sentinel (0.02 left, 0.98
\* right) and sets that side's flag; a toggle of a collapsed side stores 0.5
\* and clears the flag.
C15_ToggleCollapse ==
  [][/\ (lastOp' = "toggleLeftPanel") =>
          IF isLeftCollapsed THEN splitRatio' = Half /\ ~isLeftCollapsed'
                             ELSE splitRatio' = LeftSentinel /\ isLeftCollapsed'
     /\ (lastOp' = "toggleRightPanel") =>
          IF isRightCollapsed THEN splitRatio' = Half /\ ~isRightCollapsed'
                              ELSE splitRatio' = RightSentinel /\ isRightCollapsed']_vars

\* the right side has just been collapsed while the left side is collapsed too
C15_Witness ==
  /\ lastOp = "toggleRightPanel"
  /\ isRightCollapsed
  /\ isLeftCollapsed
  /\ splitRatio = RightSentinel

\* ---- C16 ----
\* C16: the ratio survives a remount.  The component restarts from
\* viewState.splitRatio, which no step changes while it is unmounted, so at the
\* moment of unmounting the host must hold the component's ratio.
C16_RatioSurvivesRemount ==
  [][(mounted /\ ~mounted') => viewSplitRatio = splitRatio]_vars

\* ---- C17 ----
\* C17: a pointer move that arrives while no drag session is active changes
\* neither the ratio, the collapse flags nor the drag-session record, and does
\* not invoke the parent callback.
C17_MoveOutsideSessionIsNoOp ==
  [][(lastOp' \in {"handleMouseMove", "mousemove"} /\ ~isDragging) =>
       /\ UNCHANGED <<splitRatio, isLeftCollapsed, isRightCollapsed, isDragging,
                      dragStartX, dragStartRatio, viewSplitRatio>>
       /\ ~notified']_vars

\* a pointer move right after the end of a drag
C17_Witness ==
  /\ lastOp = "mousemove"
  /\ prevOp = "handleMouseUp"
  /\ mounted
  /\ ~isDragging
  /\ ~notified

\* ---- C18 ----
\* C18: EndDrag clears the session and restores the body cursor and
\* user-select; it changes neither the ratio nor the collapse flags and does
\* not notify the parent.
C18_EndDrag ==
  [][(lastOp' = "handleMouseUp") =>
       /\ ~isDragging'
       /\ bodyStyle' = DefaultStyle
       /\ UNCHANGED <<splitRatio, isLeftCollapsed, isRightCollapsed, viewSplitRatio>>
       /\ ~notified']_vars

\* the end of a drag that had moved the divider away from the host's first ratio
C18_Witness ==
  /\ lastOp = "handleMouseUp"
  /\ prevOp = "handleMouseMove"
  /\ ~isDragging
  /\ bodyStyle = DefaultStyle
  /\ splitRatio # Fin(HostInitialSplitRatio)

\* ---- C19 ----
\* C19: BeginDrag(pointerX) records startX = pointerX and startRatio = the
\* ratio of that moment, sets the resizing cursor and the selection
\* suppression, and leaves the ratio unchanged.
C19_BeginDrag ==
  [][(lastOp' = "handleMouseDown") =>
       /\ isDragging'
       /\ dragStartX' = lastX'
       /\ dragStartRatio' = splitRatio
       /\ splitRatio' = splitRatio
       /\ bodyStyle' = ResizingStyle]_vars

\* a drag begun right after a collapse captures the sentinel
C19_Witness ==
  /\ lastOp = "handleMouseDown"
  /\ prevOp = "toggleLeftPanel"
  /\ isDragging
  /\ dragStartX = 200
  /\ dragStartRatio = LeftSentinel
  /\ viewSplitRatio # LeftSentinel

\* ---- C20 ----
\* C20: a mounted component's ratio is changed only by UpdateDrag, ResetSplit
\* and ToggleCollapse, never by the host or by a change of the
\* initialSplitRatio prop; on mount the ratio is the supplied prop.
C20_OnlyComponentChangesRatio ==
  [][/\ (mounted /\ mounted' /\ splitRatio' # splitRatio) => lastOp' \in ChangeOps
     /\ (~mounted /\ mounted') => splitRatio' = viewSplitRatio]_vars

\* the host re-renders with a prop that differs from the ratio; the ratio stays
C20_Witness ==
  /\ lastOp = "handleViewChange"
  /\ prevOp = "toggleLeftPanel"
  /\ mounted
  /\ splitRatio = LeftSentinel
  /\ viewSplitRatio = Fin(HostInitialSplitRatio)

\* ---- C21 ----
\* C21: the two collapse flags are independent: a toggle of one side leaves the
\* other side's flag alone, and pointer events and the reset change neither.
C21_FlagsIndependent ==
  [][/\ (lastOp' = "toggleLeftPanel") => isRightCollapsed' = isRightCollapsed
     /\ (lastOp' = "toggleRightPanel") => isLeftCollapsed' = isLeftCollapsed
     /\ (lastOp' \in {"handleMouseDown", "handleMouseMove", "mousemove",
                      "handleMouseUp", "resetSplit"})
          => UNCHANGED <<isLeftCollapsed, isRightCollapsed>>]_vars

\* both sides collapsed, the left one last
C21_Witness ==
  /\ mounted
  /\ lastOp = "toggleLeftPanel"
  /\ prevOp = "toggleRightPanel"
  /\ isLeftCollapsed
  /\ isRightCollapsed

\* ---- C22 ----
\* C22: the body is in drag mode (cursor col-resize, user-select none) only
\* while a drag session of a mounted component is active.
C22_DragStyleOnlyWhileDragging ==
  ~(mounted /\ isDragging) => bodyStyle = DefaultStyle

\* ---- C23 ----
\* C23, for a finite ratio: the rendered left and right widths sum to 100% of
\* the container.
C23_WidthsSumToWhole ==
  (mounted /\ splitRatio.k = "fin") => FAdd(leftWidth, rightWidth) = One

\* ======================================================================
\* ResizableSplitView (components/layout, JSX) mounted by App.jsx.
\* It shares the state variables of the TypeScript component that it also has
\* (splitRatio, isDragging, the container, the document listeners, the host's
\* viewState); the collapse flags, drag refs and body style it does not have
\* stay at their initial values.
\* ======================================================================
Lefts == {0, PointerStep}          \* left edges (px) the container can have

\* ResizableSplitView.jsx line 26: the fixed limits 0.2 and 0.8
JsxMinRatio == Fin(2 * 100)
JsxMaxRatio == Fin(8 * 100)

\* ResizableSplitView.jsx lines 24-26
clampedRatio(x, left, w) == MathMax(JsxMinRatio, MathMin(JsxMaxRatio, PxDiv(x - left, w)))

JsxIdle ==
  /\ props = DefaultProps
  /\ isLeftCollapsed = FALSE
  /\ isRightCollapsed = FALSE
  /\ dragStartX = 0
  /\ dragStartRatio = Fin(0)
  /\ bodyStyle = DefaultStyle
  /\ dragStartWidth = 0

\* App.jsx lines 29-34 (viewState) with the split view not mounted yet
InitJsx ==
  /\ activeView = "video"
  /\ viewSplitRatio = Fin(HostInitialSplitRatio)
  /\ containerWidth \in Widths
  /\ containerLeft \in Lefts
  /\ mounted = FALSE
  /\ splitRatio = Fin(DefaultInitialSplitRatio)
  /\ isDragging = FALSE
  /\ listeners = 0
  /\ lastOp = "init"
  /\ prevOp = "init"
  /\ lastX = 0
  /\ notified = FALSE
  /\ JsxIdle
  /\ PlayerInit
  /\ EditInit
  /\ LoaderInit
  /\ ExportInit

HistJsx(op, x, cb) ==
  /\ lastOp' = op
  /\ prevOp' = lastOp
  /\ lastX' = x
  /\ notified' = cb
  /\ UNCHANGED <<props, isLeftCollapsed, isRightCollapsed, dragStartX, dragStartRatio,
                 bodyStyle, dragStartWidth, playerVars, editVars, loaderVars, exportVars>>

\* App.jsx lines 281-283 and 581-628: entering 'split' mounts a fresh component
\* with initialSplitRatio = viewState.splitRatio, leaving it unmounts it
handleViewChangeJsx(view) ==
  /\ activeView' = view
  /\ mounted' = (view = "split")
  /\ IF view = "split" /\ activeView = "split"
       THEN UNCHANGED <<splitRatio, isDragging, listeners>>
       ELSE /\ splitRatio' = IF view = "split" THEN viewSplitRatio
                                               ELSE Fin(DefaultInitialSplitRatio)
            /\ isDragging' = FALSE
            /\ listeners' = ListenerEffect(listeners, isDragging, FALSE)
  /\ HistJsx("handleViewChange", 0, FALSE)
  /\ UNCHANGED <<viewSplitRatio, containerWidth, containerLeft>>

\* the layout moves or resizes the container
ResizeJsx(left, w) ==
  /\ <<left, w>> # <<containerLeft, containerWidth>>
  /\ containerLeft' = left
  /\ containerWidth' = w
  /\ HistJsx("resize", 0, FALSE)
  /\ UNCHANGED <<activeView, viewSplitRatio, mounted, splitRatio, isDragging, listeners>>

\* ResizableSplitView.jsx lines 16-19, then the effect of lines 38-48
handleMouseDownJsx(x) ==
  /\ mounted
  /\ isDragging' = TRUE
  /\ listeners' = ListenerEffect(listeners, isDragging, TRUE)
  /\ HistJsx("handleMouseDown", x, FALSE)
  /\ UNCHANGED <<activeView, viewSplitRatio, containerWidth, containerLeft, mounted,
                 splitRatio>>

\* ResizableSplitView.jsx lines 21-32: a mousemove on the document
handleMouseMoveJsx(x) ==
  /\ IF listeners > 0 /\ isDragging /\ mounted
       THEN /\ splitRatio' = clampedRatio(x, containerLeft, containerWidth)
            /\ viewSplitRatio' = clampedRatio(x, containerLeft, containerWidth)
            /\ HistJsx("handleMouseMove", x, TRUE)
       ELSE /\ UNCHANGED <<splitRatio, viewSplitRatio>>
            /\ HistJsx("mousemove", x, FALSE)
  /\ UNCHANGED <<activeView, containerWidth, containerLeft, mounted, isDragging, listeners>>

\* ResizableSplitView.jsx lines 34-36, then the effect cleanup of lines 43-46
handleMouseUpJsx ==
  /\ listeners > 0
  /\ isDragging' = FALSE
  /\ listeners' = ListenerEffect(listeners, isDragging, FALSE)
  /\ HistJsx("handleMouseUp", lastX, FALSE)
  /\ UNCHANGED <<activeView, viewSplitRatio, containerWidth, containerLeft, mounted,
                 splitRatio>>

NextJsx ==
  \/ \E view \in Views : handleViewChangeJsx(view)
  \/ \E left \in Lefts, w \in Widths : ResizeJsx(left, w)
  \/ \E x \in PointerXs : handleMouseDownJsx(x)
  \/ \E x \in PointerXs : handleMouseMoveJsx(x)
  \/ handleMouseUpJsx

SpecJsx == InitJsx /\ [][NextJsx]_vars

\* ---- C24 ----
\* C24: in the JSX split view the ratio of the mounted component, and the value
\* the parent holds, always lie within [0.2, 0.8], whatever the container's
\* left edge and width are.
C24_RatioWithinLimits ==
  /\ mounted => (FLe(JsxMinRatio, splitRatio) /\ FLe(splitRatio, JsxMaxRatio))
  /\ FLe(JsxMinRatio, viewSplitRatio) /\ FLe(viewSplitRatio, JsxMaxRatio)

\* ======================================================================
\* The specifications below are those of components other than the split
\* views.  The split view's variables stay at these values in them.
\* ======================================================================
SplitIdle ==
  /\ activeView = "video"
  /\ viewSplitRatio = Fin(HostInitialSplitRatio)
  /\ containerWidth = 1000
  /\ containerLeft = 0
  /\ mounted = FALSE
  /\ splitRatio = Fin(DefaultInitialSplitRatio)
  /\ isDragging = FALSE
  /\ listeners = 0
  /\ lastOp = "init"
  /\ prevOp = "init"
  /\ lastX = 0
  /\ notified = FALSE
  /\ JsxIdle

splitRest == <<activeView, viewSplitRatio, props, containerWidth, mounted, splitRatio,
               isDragging, isLeftCollapsed, isRightCollapsed, dragStartX, dragStartRatio,
               listeners, bodyStyle, lastX, notified, dragStartWidth, containerLeft>>

\* ======================================================================
\* App.jsx: simulated playback (the effect of lines 240-262, the handlers of
\* lines 265-275 and 407-420).  The TypeScript App has the same code.
\* ======================================================================
MaxUserOps == 3                    \* play / pause / toggle / seek calls in a run
MaxTimerId == 3                    \* interval ids are 1 .. MaxTimerId
TickStep == TimeUnits \div 10      \* line 244: 0.1 s
\* seek targets within [0, duration]; Duration - 25 is off the 0.1 s grid
SeekTimes == {0, Duration - 25, Duration}

\* setInterval: an id that is neither active nor the one just cleared
NewTimerId(ts, ref) ==
  LET free == (1..MaxTimerId) \ (ts \cup {ref})
  IN IF free = {} THEN MaxTimerId ELSE CHOOSE i \in free : \A j \in free : i <= j

\* mutant: the effect never clears an interval
PlaybackEffectNoClear(was, now, ref, ts) ==
  IF was = now THEN [ref |-> ref, timers |-> ts]
  ELSE IF now THEN LET id == NewTimerId(ts, ref)
                   IN [ref |-> id, timers |-> ts \cup {id}]
  ELSE [ref |-> 0, timers |-> ts]

\* lines 240-262: runs when isPlaying changed; first the cleanup of the previous
\* run (lines 257-261), then the body (lines 241-255)
PlaybackEffect(was, now, ref, ts) ==
  LET cleaned == IF ref # 0 THEN ts \ {ref} ELSE ts
  IN IF was = now THEN [ref |-> ref, timers |-> ts]
     ELSE IF now THEN LET id == NewTimerId(cleaned, ref)
                      IN [ref |-> id, timers |-> cleaned \cup {id}]
     ELSE [ref |-> 0, timers |-> cleaned]

\* mutant: a tick past the end is not clamped to duration
TickUpdateNoClamp(t, d) ==
  IF t + TickStep >= d THEN [currentTime |-> t + TickStep, isPlaying |-> FALSE]
  ELSE [currentTime |-> t + TickStep, isPlaying |-> TRUE]

\* lines 243-248: the state updater of one tick (isPlaying is true when unchanged)
TickUpdate(t, d) ==
  IF t + TickStep >= d THEN [currentTime |-> d, isPlaying |-> FALSE]
  ELSE [currentTime |-> t + TickStep, isPlaying |-> TRUE]

InitPlayback == SplitIdle /\ PlayerInit /\ EditInit /\ LoaderInit /\ ExportInit

\* setPlayerState(isPlaying := now), the render and the effect
SetPlaying(op, now) ==
  /\ isPlaying' = now
  /\ intervalRef' = PlaybackEffect(isPlaying, now, intervalRef, timers).ref
  /\ timers' = PlaybackEffect(isPlaying, now, intervalRef, timers).timers
  /\ lastOp' = op
  /\ UNCHANGED <<prevOp, splitRest, editVars, loaderVars, exportVars>>

UserOp ==
  /\ userOps < MaxUserOps
  /\ userOps' = userOps + 1

\* lines 265-267
handlePlay ==
  /\ UserOp
  /\ SetPlaying("handlePlay", TRUE)
  /\ UNCHANGED currentTime

\* lines 269-271
handlePause ==
  /\ UserOp
  /\ SetPlaying("handlePause", FALSE)
  /\ UNCHANGED currentTime

\* lines 407-420: the TopBar button and the 'space' / 'mod+p' hotkeys; the
\* hotkey hook may run the callback of the first render, whose isPlaying is false
handleTogglePlayback ==
  /\ UserOp
  /\ \E seen \in {isPlaying, FALSE} : SetPlaying("handleTogglePlayback", ~seen)
  /\ UNCHANGED currentTime

\* lines 273-275
handleSeek(time) ==
  /\ UserOp
  /\ currentTime' = time
  /\ lastOp' = "handleSeek"
  /\ UNCHANGED <<isPlaying, intervalRef, timers, prevOp, splitRest, editVars, loaderVars,
                 exportVars>>

\* lines 242-249: the callback of interval id fires, then the render and the effect
Tick(id) ==
  /\ id \in timers
  /\ currentTime' = TickUpdate(currentTime, Duration).currentTime
  /\ SetPlaying("tick", IF TickUpdate(currentTime, Duration).isPlaying THEN isPlaying
                                                                     ELSE FALSE)
  /\ UNCHANGED userOps

NextPlayback ==
  \/ handlePlay
  \/ handlePause
  \/ handleTogglePlayback
  \/ \E time \in SeekTimes : handleSeek(time)
  \/ \E id \in 1..MaxTimerId : Tick(id)

\* an interval that is set keeps firing
SpecPlayback ==
  InitPlayback /\ [][NextPlayback]_vars /\ WF_vars(\E id \in 1..MaxTimerId : Tick(id))

\* ---- C25 ----
\* C25: with seeks inside [0, duration], currentTime stays within [0, duration];
\* a tick that would reach or pass duration stores exactly duration and stops
\* playback, any other tick adds 0.1 s; and playback that the user no longer
\* interrupts eventually stops at duration.
C25_PlaybackStopsAtDuration ==
  /\ [](0 <= currentTime /\ currentTime <= Duration)
  /\ [][lastOp' = "tick" =>
          IF currentTime + TickStep >= Duration
            THEN currentTime' = Duration /\ ~isPlaying'
            ELSE currentTime' = currentTime + TickStep /\ isPlaying' = isPlaying]_vars
  /\ ((isPlaying /\ userOps = MaxUserOps) ~> (~isPlaying /\ currentTime = Duration))

\* after a seek and a play, a tick at the end of the media has stored duration,
\* stopped playback and cleared the timer
C25_Witness ==
  /\ lastOp = "tick" /\ ~isPlaying /\ currentTime = Duration /\ timers = {}
  /\ userOps = 2

\* ---- C26 ----
\* C26: at most one interval timer is active and none while isPlaying is false;
\* currentTime changes, other than by a seek, only by a tick while playing and
\* then by at most 0.1 s.
C26_SingleTimer ==
  /\ [](Cardinality(timers) <= 1 /\ (~isPlaying => timers = {}))
  /\ [][(lastOp' # "handleSeek" /\ currentTime' # currentTime) =>
          /\ lastOp' = "tick" /\ isPlaying
          /\ currentTime' > currentTime
          /\ currentTime' - currentTime <= TickStep]_vars

\* play, progress, pause, and a toggle that starts the one timer again
C26_Witness ==
  /\ lastOp = "handleTogglePlayback" /\ isPlaying /\ Cardinality(timers) = 1
  /\ currentTime > 0 /\ userOps = MaxUserOps

\* ======================================================================
\* App.jsx: segment edits and the undo stack (lines 285-306, 365-371).
\* ======================================================================
MaxUndo == 2                       \* entries kept per segment in a run
Texts == {"a", "b"}                \* texts an edit can store
\* the results argument of handleMacroApply: null, or an object whose
\* processedText may be empty
MacroResults == {Null} \cup {[processedText |-> t] : t \in Texts \cup {""}}

\* line 290: transcriptSegments.find(s => s.id === segmentId)?.text
TextOf(segs, segmentId) ==
  IF segmentId \in DOMAIN segs THEN segs[segmentId] ELSE "undefined"

\* lines 287-292
undoAction(segs, segmentId) ==
  [type |-> "edit", originalText |-> TextOf(segs, segmentId), segmentId |-> segmentId]

\* lines 285-306 run with the transcriptSegments that the callback closed over
SegmentEdit(op, segs, segmentId, newText) ==
  /\ Len(undoStack[segmentId]) < MaxUndo
  /\ undoStack' = [undoStack EXCEPT ![segmentId] = Append(@, undoAction(segs, segmentId))]
  /\ transcriptSegments' =
       [id \in DOMAIN transcriptSegments |->
          IF id = segmentId THEN newText ELSE transcriptSegments[id]]
  /\ lastOp' = op
  /\ UNCHANGED <<prevOp, splitRest, playerVars, loaderVars, exportVars>>

InitEdit == SplitIdle /\ PlayerInit /\ EditInit /\ LoaderInit /\ ExportInit

\* lines 285-306: the callback is rebuilt whenever transcriptSegments changes
\* (dependency list of line 306), so an editor calls it with the current segments
handleSegmentEdit(segmentId, newText) ==
  /\ newText \in Texts
  /\ SegmentEdit("handleSegmentEdit", transcriptSegments, segmentId, newText)

\* lines 365-371: the dependency list of line 371 is empty, so the
\* handleSegmentEdit this callback calls is the one of the first render, which
\* closed over the initial transcriptSegments
handleMacroApply(segmentId, results) ==
  /\ results \in MacroResults
  /\ IF results # Null /\ results.processedText # ""
       THEN SegmentEdit("handleMacroApply", InitialSegments, segmentId,
                        results.processedText)
       ELSE /\ lastOp' = "handleMacroApply"
            /\ UNCHANGED <<prevOp, splitRest, playerVars, editVars, loaderVars, exportVars>>

NextEdit ==
  \/ \E segmentId \in EditIds, newText \in Texts : handleSegmentEdit(segmentId, newText)
  \/ \E segmentId \in EditIds, results \in MacroResults : handleMacroApply(segmentId, results)

SpecEdit == InitEdit /\ [][NextEdit]_vars

\* ---- C27 ----
\* C27: whenever a segment's undo stack changes, it grew by exactly one entry
\* whose originalText is the text the segment had just before the edit, and the
\* stacks of the other segments did not change.
C27_UndoRecordsPriorText ==
  [][\A id \in EditIds :
       undoStack'[id] # undoStack[id] =>
         /\ Len(undoStack'[id]) = Len(undoStack[id]) + 1
         /\ SubSeq(undoStack'[id], 1, Len(undoStack[id])) = undoStack[id]
         /\ undoStack'[id][Len(undoStack'[id])].originalText = TextOf(transcriptSegments, id)
         /\ \A other \in EditIds \ {id} : undoStack'[other] = undoStack[other]]_vars

\* ======================================================================
\* ui/App.tsx: the transcription loader.  A transcription is identified by the
\* file it was fetched for.
\* ======================================================================
MaxInflight == 2                   \* fetches in flight at once (reached by no run)
Files == {InitialFile, "a.json", "b.json", "c.json"}
\* the lists GET /transcriptions can answer with
FileLists == {Files, Files \ {InitialFile}, {InitialFile}}
FilesError == "Failed to load transcription files"
LoadError == "Failed to load transcription data"
DataError == "data.error"

\* sequence s without its i-th element
RemoveAt(s, i) == SubSeq(s, 1, i - 1) \o SubSeq(s, i + 1, Len(s))

HistLoader(op) ==
  /\ lastOp' = op
  /\ prevOp' = lastOp
  /\ UNCHANGED <<splitRest, playerVars, editVars, exportVars>>

InitLoader == SplitIdle /\ PlayerInit /\ EditInit /\ LoaderInit /\ ExportInit

\* lines 30-42: the answer to GET /transcriptions; selectedFile is the truthy
\* initial file name in this closure, so line 36 never runs
loadAvailableFiles(outcome, files) ==
  /\ filesPending
  /\ filesPending' = FALSE
  /\ IF outcome = "ok"
       THEN availableFiles' = files /\ UNCHANGED error
       ELSE error' = FilesError /\ UNCHANGED availableFiles
  /\ HistLoader("loadAvailableFiles")
  /\ UNCHANGED <<selectedFile, loading, transcriptions, inflight, prevSelected>>

\* mutant: the file selector is also shown while a load is in flight
onChangeWhileLoading(file) ==
  /\ error = "" /\ file \in availableFiles /\ Len(inflight) < MaxInflight
  /\ file # selectedFile
  /\ selectedFile' = file
  /\ prevSelected' = selectedFile
  /\ loading' = TRUE
  /\ error' = ""
  /\ inflight' = Append(inflight, file)
  /\ HistLoader("onChange")
  /\ UNCHANGED <<availableFiles, filesPending, transcriptions>>

\* lines 89-97: the selector's onChange; it is rendered only when neither the
\* loading screen (lines 64-71) nor the error screen (lines 73-81) is, and its
\* options are the available files.  Then the effect of lines 24-28 and the
\* synchronous part of loadTranscription (lines 45-48).
onChange(file) ==
  /\ ~loading /\ error = "" /\ file \in availableFiles
  /\ file # selectedFile
  /\ selectedFile' = file
  /\ prevSelected' = selectedFile
  /\ loading' = TRUE
  /\ error' = ""
  /\ inflight' = Append(inflight, file)
  /\ HistLoader("onChange")
  /\ UNCHANGED <<availableFiles, filesPending, transcriptions>>

\* lines 49-61: the answer to the i-th fetch in flight arrives
loadTranscription(i, outcome) ==
  /\ i \in 1..Len(inflight)
  /\ IF outcome = "ok"
       THEN transcriptions' = inflight[i] /\ UNCHANGED error
       ELSE /\ error' = IF outcome = "dataError" THEN DataError ELSE LoadError
            /\ UNCHANGED transcriptions
  /\ loading' = FALSE
  /\ inflight' = RemoveAt(inflight, i)
  /\ HistLoader("loadTranscription")
  /\ UNCHANGED <<availableFiles, filesPending, selectedFile, prevSelected>>

\* line 78: Retry on the error screen reloads the page
Retry ==
  /\ ~loading /\ error # ""
  /\ availableFiles' = {}
  /\ filesPending' = TRUE
  /\ selectedFile' = InitialFile
  /\ loading' = TRUE
  /\ error' = ""
  /\ transcriptions' = "none"
  /\ inflight' = <<InitialFile>>
  /\ prevSelected' = "none"
  /\ HistLoader("Retry")

NextLoader ==
  \/ \E outcome \in {"ok", "failed"}, files \in FileLists :
       loadAvailableFiles(outcome, files)
  \/ \E file \in Files : onChange(file)
  \/ \E i \in 1..MaxInflight, outcome \in {"ok", "dataError", "failed"} :
       loadTranscription(i, outcome)
  \/ Retry

SpecLoader == InitLoader /\ [][NextLoader]_vars

\* ---- C28 ----
\* C28: once no load is in flight and none has failed, the transcription held is
\* that of the selected file and loading is false; and loading is true whenever
\* a load for the selected file is in flight.
C28_ShowsSelectedFile ==
  /\ (inflight = <<>> /\ error = "") => (~loading /\ transcriptions = selectedFile)
  /\ (\E i \in 1..Len(inflight) : inflight[i] = selectedFile) => loading

\* file A was selected, then file B, and both loads have completed
C28_Witness ==
  /\ prevSelected = "a.json" /\ selectedFile = "b.json"
  /\ inflight = <<>> /\ ~loading /\ error = "" /\ transcriptions = "b.json"

\* ======================================================================
\* ExportPanel.jsx: handleExport (lines 53-76) and simulateExport (79-147).
\* ======================================================================
MaxExports == 2                    \* handleExport calls in flight (reached by no run)
\* lines 201-206: the ids of the export type tabs
ExportTypes == {"audio", "transcript", "speakers", "bundle"}

\* mutant: simulateExport has no case for 'bundle'
simulateExportNoBundle(type) ==
  IF type = "audio" THEN [ok |-> TRUE, result |-> [type |-> type, files |-> <<"podcast_final">>]]
  ELSE IF type = "transcript"
    THEN [ok |-> TRUE, result |-> [type |-> type, files |-> <<"transcript">>]]
  ELSE IF type = "speakers"
    THEN [ok |-> TRUE,
          result |-> [type |-> type, files |-> <<"Alex_Chen", "Dr._Sarah_Martinez">>]]
  ELSE [ok |-> FALSE, result |-> [error |-> "Unknown export type"]]

\* lines 79-147: what the promise settles with, a result (ok) or a thrown Error;
\* the speakers case has one file per speaker (App.jsx lines 55-58)
simulateExport(type) ==
  IF type = "audio" THEN [ok |-> TRUE, result |-> [type |-> type, files |-> <<"podcast_final">>]]
  ELSE IF type = "transcript"
    THEN [ok |-> TRUE, result |-> [type |-> type, files |-> <<"transcript">>]]
  ELSE IF type = "speakers"
    THEN [ok |-> TRUE,
          result |-> [type |-> type, files |-> <<"Alex_Chen", "Dr._Sarah_Martinez">>]]
  ELSE IF type = "bundle"
    THEN [ok |-> TRUE, result |-> [type |-> type, files |-> <<"podcast_bundle.zip">>]]
  ELSE [ok |-> FALSE, result |-> [error |-> "Unknown export type"]]

HistExport(op) ==
  /\ lastOp' = op
  /\ prevOp' = lastOp
  /\ UNCHANGED <<splitRest, playerVars, editVars, loaderVars>>

InitExport == SplitIdle /\ PlayerInit /\ EditInit /\ LoaderInit /\ ExportInit

\* line 209: a click on an export type tab
setExportType(id) ==
  /\ id # exportType
  /\ exportType' = id
  /\ HistExport("setExportType")
  /\ UNCHANGED <<isExporting, exportProgress, exportResults, exports, onExportCalls>>

\* mutant: the export buttons are not disabled during an export
handleExportNotDisabled(type) ==
  /\ Len(exports) < MaxExports
  /\ type \in {"audio", exportType}
  /\ isExporting' = TRUE
  /\ exportProgress' = 0
  /\ exportResults' = Null
  /\ exports' = Append(exports, [type |-> type, pc |-> "simulateExport", i |-> 0])
  /\ onExportCalls' = 0
  /\ HistExport("handleExport")
  /\ UNCHANGED exportType

\* lines 53-60 up to the first await, started by Quick Export (lines 189-196,
\* type 'audio') or by the Export button (lines 451-458, type exportType); both
\* are disabled while isExporting
handleExport(type) ==
  /\ ~isExporting
  /\ type \in {"audio", exportType}
  /\ isExporting' = TRUE
  /\ exportProgress' = 0
  /\ exportResults' = Null
  /\ exports' = Append(exports, [type |-> type, pc |-> "simulateExport", i |-> 0])
  /\ onExportCalls' = 0
  /\ HistExport("handleExport")
  /\ UNCHANGED exportType

\* lines 60-75: the k-th handleExport call in flight resumes after the timer it
\* awaits: the 2000 ms of simulateExport (line 80), then the 100 ms of each
\* progress step (line 65)
ExportStep(k) ==
  /\ k \in 1..Len(exports)
  /\ LET run == exports[k]
         settled == simulateExport(run.type)
     IN IF run.pc = "simulateExport" /\ ~settled.ok
          THEN \* lines 70-75: catch and finally
               /\ exportResults' = settled.result
               /\ isExporting' = FALSE
               /\ exports' = RemoveAt(exports, k)
               /\ UNCHANGED <<exportProgress, onExportCalls>>
        ELSE IF run.pc = "simulateExport"
          THEN \* lines 63-65 with i = 0
               /\ exportProgress' = 0
               /\ exports' = [exports EXCEPT ![k] = [run EXCEPT !.pc = "progress", !.i = 0]]
               /\ UNCHANGED <<isExporting, exportResults, onExportCalls>>
        ELSE IF run.i + 10 <= 100
          THEN \* lines 63-65 with the next i
               /\ exportProgress' = run.i + 10
               /\ exports' = [exports EXCEPT ![k] = [run EXCEPT !.i = run.i + 10]]
               /\ UNCHANGED <<isExporting, exportResults, onExportCalls>>
          ELSE \* lines 68-69 and 73-75
               /\ exportResults' = settled.result
               /\ onExportCalls' = onExportCalls + 1
               /\ isExporting' = FALSE
               /\ exports' = RemoveAt(exports, k)
               /\ UNCHANGED exportProgress
  /\ HistExport("ExportStep")
  /\ UNCHANGED exportType

NextExport ==
  \/ \E id \in ExportTypes : setExportType(id)
  \/ \E type \in ExportTypes : handleExport(type)
  \/ \E k \in 1..MaxExports : ExportStep(k)

\* a timer that an export awaits fires
SpecExport ==
  InitExport /\ [][NextExport]_vars /\ WF_vars(\E k \in 1..MaxExports : ExportStep(k))

====
